---- MODULE Spec2Model ----
(***************************************************************************)
(* NidanaMap (app.py): startup of the ICD-10 reference table, the text     *)
(* normaliser, the fuzzy matcher and the Gradio handlers.                  *)
(*                                                                         *)
(* A Python str is a sequence of one-character strings.  A float score is  *)
(* the exact rational [num, den] it approximates; round(score, 5) is an    *)
(* integer count of 1e-5 units.                                            *)
(***************************************************************************)
EXTENDS Integers, Sequences, FiniteSets, TLC

VARIABLES
  pc,               \* position of the module-level script / of a function call
  exc,              \* uncaught exception of the script, "none" while it runs
  icd_code_list,    \* codes returned by hierarchy.icd10cm
  code_i,           \* position of the build loop in icd_code_list
  lookups,          \* outcome of icd10.find for each code visited so far
  records,          \* the list the build loop appends to
  icd_ref,          \* the reference table
  output_box,       \* the Markdown component
  last_request,     \* the last call of process_diagnosis and what it did
  suggestions_file, \* lines of today's suggestions file
  call,             \* arguments of a function applied on its own
  ret               \* its return value

vars == <<pc, exc, icd_code_list, code_i, lookups, records, icd_ref,
          output_box, last_request, suggestions_file, call, ret>>

(* ------------------------------ bounds --------------------------------- *)
MaxLen == 3            \* longest text given to preprocess_input on its own
MaxInputLen == 2       \* longest text typed into the input box
MaxCodes == 2          \* longest code list the hierarchy returns
MaxRows == 3           \* largest table given to the matcher on its own
MaxQueryLen == 2       \* longest query given to the matcher on its own
MaxTopK == 3           \* largest top_k given to the matcher on its own
MaxSuggestions == 1    \* most lines appended to the suggestions file

(* --------------------------- characters -------------------------------- *)
\* Code points that matter here, in increasing order of ord().
CharOrder == <<" ", "!", "-", "A", "a", "s">>

Ord(c) == CHOOSE i \in 1..Len(CharOrder) : CharOrder[i] = c

Whitespace == {" "}

UpperCase == <<"A">>

LowerCase == <<"a">>

\* str.lower() on one character
LowerChar(c) ==
  IF \E i \in 1..Len(UpperCase) : UpperCase[i] = c
  THEN LowerCase[CHOOSE i \in 1..Len(UpperCase) : UpperCase[i] = c]
  ELSE c

\* the class [a-z0-9\s\-] of the first re.sub
AllowedChar(c) == c \in {"a", "s", "-", " "}

\* A Python assignment: the right-hand side is evaluated once and the name
\* then stands for that value.
Assigned(value, Rest(_)) == CHOOSE r \in {Rest(v) : v \in {value}} : TRUE

\* all strings over alphabet A of length at most n
StringsUpTo(A, n) == UNION {[1..m -> A] : m \in 0..n}

(* ------------------------- str primitives ------------------------------ *)
RECURSIVE lstrip(_)
lstrip(s) ==
  IF s = <<>> THEN <<>>
  ELSE IF Head(s) \in Whitespace THEN lstrip(Tail(s)) ELSE s

RECURSIVE rstrip(_)
rstrip(s) ==
  IF s = <<>> THEN <<>>
  ELSE IF s[Len(s)] \in Whitespace THEN rstrip(SubSeq(s, 1, Len(s) - 1)) ELSE s

\* str.strip()
strip(s) == rstrip(lstrip(s))

\* str.lower()
lower(s) == [i \in 1..Len(s) |-> LowerChar(s[i])]

\* str.split(): maximal runs of non-whitespace
RECURSIVE SplitAcc(_, _, _)
SplitAcc(s, cur, acc) ==
  IF s = <<>> THEN (IF cur = <<>> THEN acc ELSE Append(acc, cur))
  ELSE IF Head(s) \in Whitespace
       THEN SplitAcc(Tail(s), <<>>, IF cur = <<>> THEN acc ELSE Append(acc, cur))
       ELSE SplitAcc(Tail(s), Append(cur, Head(s)), acc)

split(s) == SplitAcc(s, <<>>, <<>>)

\* ' '.join(tokens)
RECURSIVE join(_)
join(tokens) ==
  IF tokens = <<>> THEN <<>>
  ELSE IF Len(tokens) = 1 THEN tokens[1]
  ELSE tokens[1] \o <<" ">> \o join(Tail(tokens))

(* --------------------- preprocess_input (app.py 88-105) ---------------- *)
\* re.sub(r'[^a-z0-9\s\-]', ' ', text)
sub_special(s) == [i \in 1..Len(s) |-> IF AllowedChar(s[i]) THEN s[i] ELSE " "]

\* re.sub(r'\s+', ' ', text): every maximal whitespace run becomes one space
RECURSIVE sub_spaces(_)
sub_spaces(s) ==
  IF s = <<>> THEN <<>>
  ELSE IF Head(s) \in Whitespace
       THEN <<" ">> \o sub_spaces(lstrip(s))
       ELSE <<Head(s)>> \o sub_spaces(Tail(s))

\* Treebank rule (r"--", r" -- "), leftmost non-overlapping occurrences
RECURSIVE sub_dashes(_)
sub_dashes(s) ==
  IF Len(s) < 2 THEN s
  ELSE IF s[1] = "-" /\ s[2] = "-"
       THEN <<" ", "-", "-", " ">> \o sub_dashes(SubSeq(s, 3, Len(s)))
       ELSE <<Head(s)>> \o sub_dashes(Tail(s))

\* nltk.word_tokenize on text already reduced to [a-z0-9 -]: of the Treebank
\* rules only the double-dash rule and the final split can apply (the
\* contraction rules need words outside the model's alphabet).
word_tokenize(text) == split(sub_dashes(text))

\* WordNet noun lemmas spelled with the model's letters (excerpt of the
\* WordNet index: "a", "as" (arsenic), "ass").
WordNetNouns == {<<"a">>, <<"a", "s">>, <<"a", "s", "s">>}

\* MORPHOLOGICAL_SUBSTITUTIONS[NOUN] of the WordNet corpus reader
NounRules ==
  << <<(<<"s">>), (<<>>)>>,
     <<(<<"s", "e", "s">>), (<<"s">>)>>,
     <<(<<"v", "e", "s">>), (<<"f">>)>>,
     <<(<<"x", "e", "s">>), (<<"x">>)>>,
     <<(<<"z", "e", "s">>), (<<"z">>)>>,
     <<(<<"c", "h", "e", "s">>), (<<"c", "h">>)>>,
     <<(<<"s", "h", "e", "s">>), (<<"s", "h">>)>>,
     <<(<<"m", "e", "n">>), (<<"m", "a", "n">>)>>,
     <<(<<"i", "e", "s">>), (<<"y">>)>> >>

endswith(form, old) ==
  Len(form) >= Len(old) /\ SubSeq(form, Len(form) - Len(old) + 1, Len(form)) = old

\* [form[:-len(old)] + new for old, new in substitutions if form.endswith(old)]
RECURSIVE rules_for(_, _)
rules_for(form, r) ==
  IF r > Len(NounRules) THEN <<>>
  ELSE (IF endswith(form, NounRules[r][1])
        THEN <<SubSeq(form, 1, Len(form) - Len(NounRules[r][1])) \o NounRules[r][2]>>
        ELSE <<>>) \o rules_for(form, r + 1)

RECURSIVE apply_rules(_)
apply_rules(forms) ==
  IF forms = <<>> THEN <<>>
  ELSE rules_for(Head(forms), 1) \o apply_rules(Tail(forms))

\* forms found in the lemma index, first occurrences only, order kept
RECURSIVE filter_acc(_, _)
filter_acc(forms, result) ==
  IF forms = <<>> THEN result
  ELSE filter_acc(Tail(forms),
         IF Head(forms) \in WordNetNouns
            /\ ~ \E j \in 1..Len(result) : result[j] = Head(forms)
         THEN Append(result, Head(forms)) ELSE result)

filter_forms(forms) == filter_acc(forms, <<>>)

\* step 3 of _morphy: keep applying the rules until something is found
RECURSIVE morphy_loop(_)
morphy_loop(forms) ==
  IF forms = <<>> THEN <<>>
  ELSE Assigned(apply_rules(forms), LAMBDA next :
       Assigned(filter_forms(next), LAMBDA results :
         IF results # <<>> THEN results ELSE morphy_loop(next)))

\* WordNetCorpusReader._morphy(form, NOUN); no exception-list entry is
\* spelled with the model's letters
morphy(form) ==
  Assigned(apply_rules(<<form>>), LAMBDA forms :
  Assigned(filter_forms(<<form>> \o forms), LAMBDA results :
    IF results # <<>> THEN results ELSE morphy_loop(forms)))

\* min(lemmas, key=len): the first of the shortest
min_len(lemmas) ==
  lemmas[CHOOSE i \in 1..Len(lemmas) :
           /\ \A j \in 1..Len(lemmas) : Len(lemmas[i]) <= Len(lemmas[j])
           /\ \A j \in 1..(i - 1) : Len(lemmas[j]) > Len(lemmas[i])]

\* WordNetLemmatizer.lemmatize(word)
lemmatize(word) ==
  Assigned(morphy(word), LAMBDA lemmas :
    IF lemmas # <<>> THEN min_len(lemmas) ELSE word)

preprocess_input(text) ==
  Assigned(lower(text), LAMBDA t1 :
  Assigned(sub_special(t1), LAMBDA t2 :
  Assigned(strip(sub_spaces(t2)), LAMBDA t3 :
  Assigned(word_tokenize(t3), LAMBDA tokens :
  Assigned([i \in 1..Len(tokens) |-> lemmatize(tokens[i])], LAMBDA lemmatized :
    join(lemmatized))))))

(* ------------- rapidfuzz: fuzz.token_sort_ratio, process.extract ------- *)
\* Python's str comparison: lexicographic by code point
RECURSIVE str_less(_, _)
str_less(a, b) ==
  IF b = <<>> THEN FALSE
  ELSE IF a = <<>> THEN TRUE
  ELSE IF Head(a) = Head(b) THEN str_less(Tail(a), Tail(b))
  ELSE Ord(Head(a)) < Ord(Head(b))

RECURSIVE insert_sorted(_, _)
insert_sorted(tok, sorted) ==
  IF sorted = <<>> THEN <<tok>>
  ELSE IF str_less(tok, Head(sorted)) THEN <<tok>> \o sorted
  ELSE <<Head(sorted)>> \o insert_sorted(tok, Tail(sorted))

\* sorted(tokens)
RECURSIVE sorted_tokens(_)
sorted_tokens(tokens) ==
  IF tokens = <<>> THEN <<>>
  ELSE insert_sorted(Head(tokens), sorted_tokens(Tail(tokens)))

Max(a, b) == IF a >= b THEN a ELSE b

\* length of the longest common subsequence, one table row per character of a
RECURSIVE lcs_row(_, _, _, _, _)
lcs_row(prev, ch, b, j, row) ==
  IF j > Len(b) THEN row
  ELSE Assigned(Append(row, IF ch = b[j] THEN prev[j] + 1
                            ELSE Max(prev[j + 1], row[j])),
                LAMBDA longer : lcs_row(prev, ch, b, j + 1, longer))

RECURSIVE lcs_rows(_, _, _)
lcs_rows(a, b, prev) ==
  IF a = <<>> THEN prev[Len(b) + 1]
  ELSE Assigned(lcs_row(prev, Head(a), b, 1, <<0>>),
                LAMBDA row : lcs_rows(Tail(a), b, row))

lcs_len(a, b) == lcs_rows(a, b, [j \in 1..(Len(b) + 1) |-> 0])

\* fuzz.ratio: 100 * Indel.normalized_similarity = 100 * 2*LCS / (len1+len2),
\* and 100 when both strings are empty
ratio(s1, s2) ==
  IF Len(s1) + Len(s2) = 0 THEN [num |-> 100, den |-> 1]
  ELSE [num |-> 200 * lcs_len(s1, s2), den |-> Len(s1) + Len(s2)]

\* fuzz.token_sort_ratio with processor=None: no case folding of either side
token_sort_ratio(s1, s2) ==
  Assigned(join(sorted_tokens(split(s1))), LAMBDA sorted_s1 :
  Assigned(join(sorted_tokens(split(s2))), LAMBDA sorted_s2 :
    ratio(sorted_s1, sorted_s2)))

score_gt(a, b) == a.num * b.den > b.num * a.den

score_eq(a, b) == a.num * b.den = b.num * a.den

\* round(score, 5), counted in units of 0.00001
round5(score) == (2 * score.num * 100000 + score.den) \div (2 * score.den)

\* rank_of with the comparison the wrong way round: worst first
rank_of_ascending(scored, i) ==
  1 + Cardinality({j \in 1..Len(scored) :
        \/ score_gt(scored[i].score, scored[j].score)
        \/ score_eq(scored[j].score, scored[i].score) /\ j < i})

\* position of candidate i in the descending order: candidates that beat it,
\* equal scores staying in index order
rank_of(scored, i) ==
  1 + Cardinality({j \in 1..Len(scored) :
        \/ score_gt(scored[j].score, scored[i].score)
        \/ score_eq(scored[j].score, scored[i].score) /\ j < i})

\* the limit best of the scored candidates, best first
top_scored(scored, n) ==
  [r \in 1..n |-> scored[CHOOSE i \in 1..Len(scored) : rank_of(scored, i) = r]]

\* extract that forgets the limit
extract_unlimited(query, choices, limit) ==
  Assigned([i \in 1..Len(choices) |->
              [choice |-> choices[i],
               score |-> token_sort_ratio(query, choices[i]),
               key |-> i]],
           LAMBDA scored : top_scored(scored, Len(choices)))

\* process.extract(query, choices, scorer=token_sort_ratio, limit=limit):
\* every choice is scored, the list is ordered by descending score and cut
\* to limit; each result is (choice, score, key)
extract(query, choices, limit) ==
  Assigned([i \in 1..Len(choices) |->
              [choice |-> choices[i],
               score |-> token_sort_ratio(query, choices[i]),
               key |-> i]],
           LAMBDA scored :
             top_scored(scored,
                        IF limit < Len(choices) THEN limit ELSE Len(choices)))

(* ------------------- reference table (app.py 53-62) -------------------- *)
\* pd.DataFrame(records): a frame built from no records has no columns
DataFrame(recs) ==
  [bound |-> TRUE,
   columns |-> IF recs = <<>> THEN {} ELSE {"code", "description"},
   rows |-> recs]

(* -------------- find_icd_with_embedding (app.py 65-82) ----------------- *)
JustificationTail == "%) based on fuzzy logic and ICD-10 vector proximity."

\* lines 72-82: one record per candidate; embedder.to_vec is computed for
\* the candidate's code and dropped
match_records(candidates, ref_df) ==
  [r \in 1..Len(candidates) |->
     [icd_code |-> ref_df.rows[candidates[r].key].code,
      icd_description |-> candidates[r].choice,
      text_score |-> round5(candidates[r].score),
      justification |-> [head |-> "Matched '",
                         desc |-> candidates[r].choice,
                         mid |-> "' (",
                         score |-> candidates[r].score,
                         tail |-> JustificationTail]]]

\* ref_df['description'] raises KeyError on a frame without that column
find_icd_with_embedding(diagnosis, ref_df, top_k) ==
  IF "description" \notin ref_df.columns
  THEN [error |-> "KeyError", matches |-> <<>>]
  ELSE Assigned(extract(diagnosis,
                        [i \in 1..Len(ref_df.rows) |-> ref_df.rows[i].description],
                        top_k),
                LAMBDA candidates :
                  [error |-> "none",
                   matches |-> match_records(candidates, ref_df)])

(* ---------------- handlers (app.py 107-148) ---------------------------- *)
RejectionMessage == "Please enter a diagnosis to search."

Markdown(text, diagnosis, items) ==
  [text |-> text, diagnosis |-> diagnosis, items |-> items]

EmptyMarkdown == Markdown("", <<>>, <<>>)

\* one block per match: code, description, score as .5f, justification
format_results(diagnosis, matches) ==
  Markdown("Results for", diagnosis,
    [i \in 1..Len(matches) |->
       [code |-> matches[i].icd_code,
        description |-> matches[i].icd_description,
        score |-> matches[i].text_score,
        justification |-> matches[i].justification]])

\* lines 124-128, once the matcher has answered
diagnosis_done(input_text, initial_input, found) ==
  IF found.error # "none"
  THEN [input |-> input_text,
        calls |-> <<"preprocess_input", "find_icd_with_embedding">>,
        error |-> found.error, result |-> EmptyMarkdown, matches |-> <<>>]
  ELSE [input |-> input_text,
        calls |-> <<"preprocess_input", "find_icd_with_embedding",
                    "format_results">>,
        error |-> "none",
        result |-> format_results(initial_input, found.matches),
        matches |-> found.matches]

\* process_diagnosis testing the raw text instead of the stripped one
process_diagnosis_unstripped(input_text, ref_df) ==
  IF input_text = <<>>
  THEN [input |-> input_text, calls |-> <<>>, error |-> "none",
        result |-> Markdown(RejectionMessage, <<>>, <<>>), matches |-> <<>>]
  ELSE Assigned(strip(input_text), LAMBDA initial_input :
       Assigned(preprocess_input(initial_input), LAMBDA cleaned_input :
       Assigned(find_icd_with_embedding(cleaned_input, ref_df, 3), LAMBDA found :
         diagnosis_done(input_text, initial_input, found))))

\* What one call of process_diagnosis does: the functions it calls, in order,
\* the exception that escapes it ("none" if it returns) and what it returns.
process_diagnosis(input_text, ref_df) ==
  IF strip(input_text) = <<>>
  THEN [input |-> input_text, calls |-> <<>>, error |-> "none",
        result |-> Markdown(RejectionMessage, <<>>, <<>>), matches |-> <<>>]
  ELSE Assigned(strip(input_text), LAMBDA initial_input :
       Assigned(preprocess_input(initial_input), LAMBDA cleaned_input :
       Assigned(find_icd_with_embedding(cleaned_input, ref_df, 3), LAMBDA found :
         diagnosis_done(input_text, initial_input, found))))

(* ------------------------------ inputs --------------------------------- *)
Codes == {"A00", "E11.9", "Z99"}

\* code lists without repetition, as the ICD-10-CM hierarchy lists its codes
CodeLists ==
  {cl \in UNION {[1..n -> Codes] : n \in 0..MaxCodes} :
     \A i, j \in 1..Len(cl) : i # j => cl[i] # cl[j]}

\* icd10.find(code): an object with a description, None, or an exception
Descriptions == {<<"A">>, <<"A", "s">>}

FindOutcomes ==
  {[kind |-> "found", description |-> d] : d \in Descriptions}
  \cup {[kind |-> "None", description |-> <<>>],
        [kind |-> "raises", description |-> <<>>]}

UIAlphabet == {"A", " "}

\* texts with a character the normaliser blanks out
SpecialInputs == {<<"!">>, <<"A", "!">>}

\* what the user types: any short text (blank, padded or not), a text with a
\* special character, or a description as the table has it
Inputs ==
  StringsUpTo(UIAlphabet, MaxInputLen) \cup SpecialInputs \cup Descriptions

Suggestions == {<<>>, <<" ">>, <<" ", "s">>}

NormAlphabet == {"A", "a", "s", " ", "-", "!"}

QueryAlphabet == {"A", "a", "s", " "}

RowCodes == <<"A00", "E11.9", "I10", "Z99", "Z99.1">>

RowDescriptions == {<<>>, <<"a">>, <<"A", " ", "s">>, <<"s", " ", "a">>}

Tables ==
  {DataFrame([i \in 1..Len(d) |-> [code |-> RowCodes[i], description |-> d[i]]]) :
     d \in UNION {[1..m -> RowDescriptions] : m \in 0..MaxRows}}

(* --------------------------- state machine ----------------------------- *)
Unbound == [bound |-> FALSE, columns |-> {}, rows |-> <<>>]

NoRequest ==
  [input |-> <<>>, calls |-> <<>>, error |-> "none", result |-> EmptyMarkdown,
   matches |-> <<>>]

NoCall == [fn |-> "none", text |-> <<>>, ref |-> Unbound, top_k |-> 0]

NoReturn == [text |-> <<>>, error |-> "none", matches |-> <<>>]

Init ==
  /\ pc = "load_hierarchy"
  /\ exc = "none"
  /\ icd_code_list = <<>>
  /\ code_i = 1
  /\ lookups = <<>>
  /\ records = <<>>
  /\ icd_ref = Unbound
  /\ output_box = EmptyMarkdown
  /\ last_request = NoRequest
  /\ suggestions_file = <<>>
  /\ call = NoCall
  /\ ret = NoReturn

\* line 47: hierarchy.icd10cm("2025") returns the code list ...
LoadHierarchy ==
  /\ pc = "load_hierarchy"
  /\ \E cl \in CodeLists : icd_code_list' = cl
  /\ pc' = "fit"
  /\ UNCHANGED <<exc, code_i, lookups, records, icd_ref, output_box,
                 last_request, suggestions_file, call, ret>>

\* ... or raises: the script dies with the exception
LoadHierarchyFails ==
  /\ pc = "load_hierarchy"
  /\ pc' = "aborted"
  /\ exc' = "hierarchy"
  /\ UNCHANGED <<icd_code_list, code_i, lookups, records, icd_ref, output_box,
                 last_request, suggestions_file, call, ret>>

\* lines 49-50: Icd2Vec(...).fit(icd_graph, icd_code_list)
FitEmbedder ==
  /\ pc = "fit"
  /\ pc' = "build"
  /\ UNCHANGED <<exc, icd_code_list, code_i, lookups, records, icd_ref,
                 output_box, last_request, suggestions_file, call, ret>>

FitEmbedderFails ==
  /\ pc = "fit"
  /\ pc' = "aborted"
  /\ exc' = "fit"
  /\ UNCHANGED <<icd_code_list, code_i, lookups, records, icd_ref, output_box,
                 last_request, suggestions_file, call, ret>>

\* lines 55-59: desc = obj.description if obj else "", and "" on any exception
describe(outcome) ==
  IF outcome.kind = "found" THEN outcome.description ELSE <<>>

\* the loop without the try/except: a failing lookup ends the script
BuildRecordUnguarded ==
  /\ pc = "build"
  /\ code_i <= Len(icd_code_list)
  /\ \E outcome \in FindOutcomes :
       /\ lookups' = Append(lookups, outcome)
       /\ IF outcome.kind = "raises"
          THEN /\ pc' = "aborted"
               /\ exc' = "lookup"
               /\ UNCHANGED records
          ELSE /\ records' = Append(records, [code |-> icd_code_list[code_i],
                                              description |-> describe(outcome)])
               /\ UNCHANGED <<pc, exc>>
  /\ code_i' = code_i + 1
  /\ UNCHANGED <<icd_code_list, icd_ref, output_box, last_request,
                 suggestions_file, call, ret>>

\* lines 54-60: one iteration of the loop over icd_code_list
BuildRecord ==
  /\ pc = "build"
  /\ code_i <= Len(icd_code_list)
  /\ \E outcome \in FindOutcomes :
       /\ lookups' = Append(lookups, outcome)
       /\ records' = Append(records, [code |-> icd_code_list[code_i],
                                      description |-> describe(outcome)])
  /\ code_i' = code_i + 1
  /\ UNCHANGED <<pc, exc, icd_code_list, icd_ref, output_box, last_request,
                 suggestions_file, call, ret>>

\* line 62, after the loop has run out of codes
MakeFrame ==
  /\ pc = "build"
  /\ code_i > Len(icd_code_list)
  /\ icd_ref' = DataFrame(records)
  /\ pc' = "ui"
  /\ UNCHANGED <<exc, icd_code_list, code_i, lookups, records, output_box,
                 last_request, suggestions_file, call, ret>>

\* lines 158-220: the Blocks layout and the three click bindings
BuildUI ==
  /\ pc = "ui"
  /\ output_box' = EmptyMarkdown
  /\ pc' = "launch"
  /\ UNCHANGED <<exc, icd_code_list, code_i, lookups, records, icd_ref,
                 last_request, suggestions_file, call, ret>>

\* launching without waiting for the table
LaunchEarly ==
  /\ pc \in {"build", "launch"}
  /\ pc' = "serving"
  /\ UNCHANGED <<exc, icd_code_list, code_i, lookups, records, icd_ref,
                 output_box, last_request, suggestions_file, call, ret>>

\* lines 222-227: app.launch starts serving the handlers
Launch ==
  /\ pc = "launch"
  /\ pc' = "serving"
  /\ UNCHANGED <<exc, icd_code_list, code_i, lookups, records, icd_ref,
                 output_box, last_request, suggestions_file, call, ret>>

\* a handler that drops the rows it has returned from the table
SubmitConsuming(input_text) ==
  /\ pc = "serving"
  /\ \E done \in {process_diagnosis(input_text, icd_ref)} :
       /\ last_request' = done
       /\ output_box' = IF done.error = "none" THEN done.result ELSE output_box
       /\ icd_ref' = [icd_ref EXCEPT !.rows =
            SubSeq(icd_ref.rows, Len(done.matches) + 1, Len(icd_ref.rows))]
  /\ UNCHANGED <<pc, exc, icd_code_list, code_i, lookups, records,
                 suggestions_file, call, ret>>

\* line 176: submit_btn.click(process_diagnosis, input_box -> output_box);
\* an exception leaves the output component as it was
Submit(input_text) ==
  /\ pc = "serving"
  /\ \E done \in {process_diagnosis(input_text, icd_ref)} :
       /\ last_request' = done
       /\ output_box' = IF done.error = "none" THEN done.result ELSE output_box
  /\ UNCHANGED <<pc, exc, icd_code_list, code_i, lookups, records, icd_ref,
                 suggestions_file, call, ret>>

\* lines 130-131 and 177: clear_input empties the input and output boxes
Clear ==
  /\ pc = "serving"
  /\ output_box' = EmptyMarkdown
  /\ UNCHANGED <<pc, exc, icd_code_list, code_i, lookups, records, icd_ref,
                 last_request, suggestions_file, call, ret>>

\* lines 133-148: save_suggestion appends the stripped text to today's file
\* (the timestamp prefix is left out); a blank suggestion writes nothing
SaveSuggestion(suggestion) ==
  /\ pc = "serving"
  /\ Len(suggestions_file) < MaxSuggestions
  /\ suggestions_file' = IF strip(suggestion) = <<>> THEN suggestions_file
                         ELSE Append(suggestions_file, strip(suggestion))
  /\ UNCHANGED <<pc, exc, icd_code_list, code_i, lookups, records, icd_ref,
                 output_box, last_request, call, ret>>

Next ==
  \/ LoadHierarchy
  \/ LoadHierarchyFails
  \/ FitEmbedder
  \/ FitEmbedderFails
  \/ BuildRecord
  \/ MakeFrame
  \/ BuildUI
  \/ Launch
  \/ \E input_text \in Inputs : Submit(input_text)
  \/ Clear
  \/ \E suggestion \in Suggestions : SaveSuggestion(suggestion)

Spec == Init /\ [][Next]_vars

(* ------------- preprocess_input applied on its own --------------------- *)
InitNorm ==
  /\ pc = "call"
  /\ exc = "none"
  /\ icd_code_list = <<>>
  /\ code_i = 1
  /\ lookups = <<>>
  /\ records = <<>>
  /\ icd_ref = Unbound
  /\ output_box = EmptyMarkdown
  /\ last_request = NoRequest
  /\ suggestions_file = <<>>
  /\ \E text \in StringsUpTo(NormAlphabet, MaxLen) :
       call = [fn |-> "preprocess_input", text |-> text, ref |-> Unbound,
               top_k |-> 0]
  /\ ret = NoReturn

Normalize ==
  /\ pc = "call"
  /\ call.fn = "preprocess_input"
  /\ ret' = [text |-> preprocess_input(call.text), error |-> "none",
             matches |-> <<>>]
  /\ pc' = "return"
  /\ UNCHANGED <<exc, icd_code_list, code_i, lookups, records, icd_ref,
                 output_box, last_request, suggestions_file, call>>

\* the caller passes the returned text back in
NormalizeAgain ==
  /\ pc = "return"
  /\ call.fn = "preprocess_input"
  /\ call.text # ret.text
  /\ call' = [call EXCEPT !.text = ret.text]
  /\ pc' = "call"
  /\ UNCHANGED <<exc, icd_code_list, code_i, lookups, records, icd_ref,
                 output_box, last_request, suggestions_file, ret>>

NextNorm == Normalize \/ NormalizeAgain

SpecNorm == InitNorm /\ [][NextNorm]_vars

(* ---------- find_icd_with_embedding applied on its own ----------------- *)
InitMatch ==
  /\ pc = "call"
  /\ exc = "none"
  /\ icd_code_list = <<>>
  /\ code_i = 1
  /\ lookups = <<>>
  /\ records = <<>>
  /\ icd_ref = Unbound
  /\ output_box = EmptyMarkdown
  /\ last_request = NoRequest
  /\ suggestions_file = <<>>
  /\ \E q \in StringsUpTo(QueryAlphabet, MaxQueryLen), ref \in Tables,
        k \in 1..MaxTopK :
       call = [fn |-> "find_icd_with_embedding", text |-> q, ref |-> ref,
               top_k |-> k]
  /\ ret = NoReturn

Match ==
  /\ pc = "call"
  /\ call.fn = "find_icd_with_embedding"
  /\ \E found \in {find_icd_with_embedding(call.text, call.ref, call.top_k)} :
       ret' = [text |-> <<>>, error |-> found.error, matches |-> found.matches]
  /\ pc' = "return"
  /\ UNCHANGED <<exc, icd_code_list, code_i, lookups, records, icd_ref,
                 output_box, last_request, suggestions_file, call>>

NextMatch == Match

SpecMatch == InitMatch /\ [][NextMatch]_vars

(* ------------------------------ properties ----------------------------- *)
IsBlank(s) == \A i \in 1..Len(s) : s[i] \in Whitespace

CallsOf(req, fn) == Cardinality({i \in 1..Len(req.calls) : req.calls[i] = fn})

Min(a, b) == IF a <= b THEN a ELSE b

ScoreUnit == 100000

\* C1: a blank input (empty or whitespace only) is answered with the
\* rejection message and reaches neither preprocess_input nor
\* find_icd_with_embedding; any other input reaches the matcher exactly once.
C1_BlankInputRejected ==
  last_request # NoRequest =>
    IF IsBlank(last_request.input)
    THEN /\ last_request.result = Markdown(RejectionMessage, <<>>, <<>>)
         /\ last_request.error = "none"
         /\ CallsOf(last_request, "preprocess_input") = 0
         /\ CallsOf(last_request, "find_icd_with_embedding") = 0
    ELSE CallsOf(last_request, "find_icd_with_embedding") = 1

C1_Witness ==
  /\ last_request # NoRequest
  /\ IsBlank(last_request.input)
  /\ Len(last_request.input) > 0
  /\ output_box = Markdown(RejectionMessage, <<>>, <<>>)

\* C2: a call of the matcher that returns gives at most top_k records, each
\* with a score between 0 and 100, in descending order of score.
C2_AtMostKSortedInRange ==
  pc = "return" =>
    /\ Len(ret.matches) <= call.top_k
    /\ \A r \in 1..Len(ret.matches) :
         /\ ret.matches[r].text_score >= 0
         /\ ret.matches[r].text_score <= 100 * ScoreUnit
    /\ \A r1, r2 \in 1..Len(ret.matches) :
         r1 < r2 => ret.matches[r1].text_score >= ret.matches[r2].text_score

C2_Witness ==
  /\ pc = "return"
  /\ Len(call.ref.rows) > call.top_k
  /\ Len(ret.matches) = call.top_k
  /\ call.top_k >= 2
  /\ ret.matches[1].text_score > ret.matches[2].text_score
  /\ ret.matches[2].text_score > 0

\* C3: on an empty reference table the matcher returns the empty list and
\* does not fail.
C3_EmptyTableEmptyList ==
  (pc = "return" /\ call.ref.rows = <<>>) =>
    (ret.error = "none" /\ ret.matches = <<>>)

\* C4: the reference table is bound once, by the startup script, and no
\* handler (process_diagnosis, clear_input, save_suggestion) changes it.
C4_TableReadOnly ==
  [][/\ pc = "serving" => icd_ref' = icd_ref
     /\ icd_ref' # icd_ref => (~icd_ref.bound /\ icd_ref'.bound)]_vars

C4_Witness ==
  /\ pc = "serving"
  /\ Len(icd_ref.rows) > 0
  /\ last_request.error = "none"
  /\ Len(last_request.matches) > 0
  /\ output_box = EmptyMarkdown
  /\ suggestions_file # <<>>

\* C5: the table has one entry per code of the code list, in list order; a
\* lookup that finds nothing or raises gives an empty description, and the
\* script goes on.
C5_OneEntryPerCode ==
  /\ (\E i \in 1..Len(lookups) : lookups[i].kind = "raises") =>
       (exc = "none" /\ Len(records) = Len(lookups))
  /\ icd_ref.bound =>
       /\ Len(icd_ref.rows) = Len(icd_code_list)
       /\ \A i \in 1..Len(icd_code_list) :
            /\ icd_ref.rows[i].code = icd_code_list[i]
            /\ icd_ref.rows[i].description =
                 (IF lookups[i].kind = "found" THEN lookups[i].description
                  ELSE <<>>)

C5_Witness ==
  /\ icd_ref.bound
  /\ Len(icd_code_list) >= 2
  /\ lookups[1].kind = "raises"
  /\ lookups[2].kind = "found"
  /\ icd_ref.rows[1].description = <<>>
  /\ icd_ref.rows[2].description # <<>>

\* C6: an input that is exactly the description of a reference entry comes
\* back with that description on top and a score of about 100.
C6_ExactDescriptionOnTop ==
  (/\ last_request # NoRequest
   /\ ~IsBlank(last_request.input)
   /\ \E i \in 1..Len(icd_ref.rows) :
        icd_ref.rows[i].description = last_request.input) =>
    /\ last_request.error = "none"
    /\ Len(last_request.matches) >= 1
    /\ last_request.matches[1].icd_description = last_request.input
    /\ last_request.matches[1].text_score >= 99 * ScoreUnit

\* C7: preprocess_input is idempotent: normalising a normalised text gives
\* it back.
C7_NormalizeIdempotent ==
  pc = "return" => preprocess_input(ret.text) = ret.text

\* C8: the justification of a match reads "Matched '<description>'
\* (<score>%) based on fuzzy text similarity." with the description and the
\* score of that match.
C8_JustificationTemplate ==
  pc = "return" =>
    \A r \in 1..Len(ret.matches) :
      /\ ret.matches[r].justification.head = "Matched '"
      /\ ret.matches[r].justification.desc = ret.matches[r].icd_description
      /\ ret.matches[r].justification.mid = "' ("
      /\ ret.matches[r].justification.score.num * ScoreUnit =
           ret.matches[r].text_score * ret.matches[r].justification.score.den
      /\ ret.matches[r].justification.tail =
           "%) based on fuzzy text similarity."

TableComplete ==
  /\ icd_ref.bound
  /\ Len(icd_ref.rows) = Len(icd_code_list)

\* C9: handlers run only once the script is serving, serving starts only
\* with the complete table, and a failed hierarchy load or embedder fit ends
\* the script for good.
C9_StartupOrdering ==
  [][/\ (last_request' # last_request \/ output_box' # output_box
         \/ suggestions_file' # suggestions_file) => pc = "serving"
     /\ pc' = "serving" => TableComplete'
     /\ exc' # "none" => pc' = "aborted"
     /\ pc = "aborted" => pc' = "aborted"]_vars

C9_Witness ==
  /\ pc = "serving"
  /\ Len(icd_ref.rows) >= 2
  /\ last_request # NoRequest
  /\ last_request.error = "none"

\* C10: the records returned are min(top_k, N) different entries of the
\* table, code and description taken from the same entry, and no entry left
\* out scores higher than a returned one.
C10_TopKOfTable ==
  (pc = "return" /\ ret.error = "none") =>
    /\ Len(ret.matches) = Min(call.top_k, Len(call.ref.rows))
    /\ \A r \in 1..Len(ret.matches) :
         \E i \in 1..Len(call.ref.rows) :
           /\ call.ref.rows[i].code = ret.matches[r].icd_code
           /\ call.ref.rows[i].description = ret.matches[r].icd_description
    /\ \A r1, r2 \in 1..Len(ret.matches) :
         r1 # r2 => ret.matches[r1].icd_code # ret.matches[r2].icd_code
    /\ \A i \in 1..Len(call.ref.rows) :
         (\A r \in 1..Len(ret.matches) :
            ret.matches[r].icd_code # call.ref.rows[i].code) =>
         \A r \in 1..Len(ret.matches) :
           ~score_gt(token_sort_ratio(call.text, call.ref.rows[i].description),
                     token_sort_ratio(call.text, ret.matches[r].icd_description))

C10_Witness ==
  /\ pc = "return"
  /\ ret.error = "none"
  /\ Len(call.ref.rows) > call.top_k
  /\ Len(ret.matches) = call.top_k
  /\ ret.matches[1].icd_code # call.ref.rows[1].code
  /\ \E i \in 1..Len(call.ref.rows) :
       /\ \A r \in 1..Len(ret.matches) :
            ret.matches[r].icd_code # call.ref.rows[i].code
       /\ score_gt(token_sort_ratio(call.text, ret.matches[call.top_k].icd_description),
                   token_sort_ratio(call.text, call.ref.rows[i].description))

====
